---------------------------- MODULE Spec2Model ----------------------------
(***************************************************************************)
(* Model of statistics_and_trends.py: main loads data.csv, prints the      *)
(* exploratory summaries, writes three plot files through matplotlib's     *)
(* pyplot (whose figure registry and "current figure" are global state),   *)
(* computes four moments of one column and prints their interpretation.    *)
(*                                                                         *)
(* Floating-point values are modelled exactly, as NaN or as a rational     *)
(* num/den, or as the signed square root sign(num)*sqrt(|num|/den) when    *)
(* `root` is set (standard deviation and skewness are square roots of      *)
(* rationals).  Comparisons follow IEEE/Python: every comparison that      *)
(* involves NaN is false.                                                  *)
(***************************************************************************)
EXTENDS Integers, Sequences, FiniteSets

VARIABLES
    csv,            \* the file data.csv: [status, table]
    df,             \* main's DataFrame: column name -> sequence of cells
    col,            \* main's analysed column name
    pc,             \* main's position (the call about to be made)
    exc,            \* the uncaught exception that ended the run, or "none"
    gpc,            \* each plot generator's position (its next statement)
    figs,           \* pyplot's registry of open figures; the last is current
    canvas,         \* what has been drawn or set on each figure object
    written,        \* each plot file: the snapshots saved to it, in order
    moments,        \* main's moments tuple, <<>> until computed
    report,         \* writing's <<skew_type, kurtosis_type>>, <<>> until printed
    log,            \* the run's observable events, in order
    fault,          \* the generator whose drawing call the library rejects
    mode            \* how a harness schedules the generators

vars == <<csv, df, col, pc, exc, gpc, figs, canvas, written, moments,
          report, log, fault, mode>>

\* The largest number of rows of data.csv explored.
MaxRows == 7

-----------------------------------------------------------------------------
(* Floats *)

NaN == [nan |-> TRUE, num |-> 0, den |-> 1, root |-> FALSE]

Rat(n, d) == [nan |-> FALSE, num |-> n, den |-> d, root |-> FALSE]

Num(n) == Rat(n, 1)

\* sign(n) * sqrt(|n| / d)
Root(n, d) == [nan |-> FALSE, num |-> n, den |-> d, root |-> TRUE]

Sign(n) == IF n > 0 THEN 1 ELSE IF n < 0 THEN 0 - 1 ELSE 0

\* x * |x| as a fraction SqNum / SqDen: an order-preserving image of x.
SqNum(x) == IF x.root THEN x.num ELSE Sign(x.num) * x.num * x.num

SqDen(x) == IF x.root THEN x.den ELSE x.den * x.den

\* Python's x < y
FLt(x, y) ==
    /\ ~x.nan
    /\ ~y.nan
    /\ IF ~x.root /\ ~y.root
       THEN x.num * y.den < y.num * x.den
       ELSE SqNum(x) * SqDen(y) < SqNum(y) * SqDen(x)

\* Python's x > y
FGt(x, y) == FLt(y, x)

\* Python's x == y
FEq(x, y) ==
    /\ ~x.nan
    /\ ~y.nan
    /\ IF ~x.root /\ ~y.root
       THEN x.num * y.den = y.num * x.den
       ELSE SqNum(x) * SqDen(y) = SqNum(y) * SqDen(x)

\* Python's abs(x); abs(nan) is nan
FAbs(x) == [x EXCEPT !.num = IF x.num < 0 THEN 0 - x.num ELSE x.num]

-----------------------------------------------------------------------------
(* The dataset *)

NumericColumns == {"math score", "reading score", "writing score"}

CategoricalColumns == {"gender", "parental level of education"}

AllColumns == NumericColumns \cup CategoricalColumns

\* n copies of x
Repeat(x, n) == [i \in 1..n |-> x]

\* A math score column of a zeros, b ones and c missing cells.
MathColumn(a, b, c) == Repeat(Num(0), a) \o Repeat(Num(1), b) \o Repeat(NaN, c)

MathColumns ==
    { MathColumn(a, b, c) :
        <<a, b, c>> \in { t \in (0..MaxRows) \X (0..MaxRows) \X (0..MaxRows) :
                            t[1] + t[2] + t[3] \in 1..MaxRows } }

\* The table with the columns cols, whose math score column is m; every
\* other score is 1 and every category "a".
Table(cols, m) ==
    [c \in cols |->
        IF c = "math score" THEN m
        ELSE IF c \in NumericColumns THEN Repeat(Num(1), Len(m))
        ELSE Repeat("a", Len(m))]

\* The tables explored: complete, or with one column absent.
Tables ==
    { Table(cols, m) :
        cols \in {AllColumns} \cup { AllColumns \ {c} : c \in AllColumns },
        m \in MathColumns }

NoTable == [c \in {} |-> <<>>]

CsvFiles ==
    { [status |-> "ok", table |-> t] : t \in Tables }
        \cup { [status |-> s, table |-> NoTable] : s \in {"missing", "unparsable"} }

\* Faulty variant of read_csv: a file that cannot be read yields an empty
\* frame instead of an exception.
read_csv_lenient(file) == [exc |-> "none", df |-> file.table]

\* pd.read_csv('data.csv'): the DataFrame, or the exception raised.
read_csv(file) ==
    IF file.status = "ok"
    THEN [exc |-> "none", df |-> file.table]
    ELSE [exc |-> IF file.status = "missing" THEN "FileNotFoundError"
                  ELSE "ParserError",
          df |-> NoTable]

-----------------------------------------------------------------------------
(* Moments *)

RECURSIVE SumSeq(_)
SumSeq(s) == IF s = <<>> THEN 0 ELSE Head(s) + SumSeq(Tail(s))

IsPresent(c) == ~c.nan

\* The cells that are not missing (pandas' skipna=True).
Present(s) == SelectSeq(s, IsPresent)

\* n * x[i] - sum(x): n times the deviation from the mean, of integer cells.
Dev(s) == LET n == Len(s)
              t == SumSeq([i \in 1..n |-> s[i].num])
          IN  [i \in 1..n |-> n * s[i].num - t]

\* sum of the k-th powers of the scaled deviations, k in 2..4
PowSum(s, k) ==
    LET d == Dev(s)
    IN  SumSeq([i \in 1..Len(s) |->
                  IF k = 2 THEN d[i] * d[i]
                  ELSE IF k = 3 THEN d[i] * d[i] * d[i]
                  ELSE d[i] * d[i] * d[i] * d[i]])

\* Series.mean(): the mean of the present cells, NaN when there is none.
series_mean(s) ==
    LET p == Present(s)
        n == Len(p)
    IN  IF n = 0 THEN NaN
        ELSE Rat(SumSeq([i \in 1..n |-> p[i].num]), n)

\* Series.std(): the sample (n - 1) standard deviation of the present cells.
series_std(s) ==
    LET p == Present(s)
        n == Len(p)
    IN  IF n <= 1 THEN NaN
        ELSE Root(PowSum(p, 2), n * n * (n - 1))

HasNaN(s) == \E i \in 1..Len(s) : s[i].nan

\* scipy.stats.skew (biased, nan_policy='propagate'): m3 / m2^1.5.  For a
\* constant column releases before 1.9 return 0 and later ones NaN (legacy
\* tells which release is installed).
ss_skew(s, legacy) ==
    LET n  == Len(s)
        m2 == PowSum(s, 2)
        m3 == PowSum(s, 3)
    IN  IF HasNaN(s) \/ n = 0 THEN NaN
        ELSE IF m2 = 0 THEN (IF legacy THEN Num(0) ELSE NaN)
        ELSE Root(Sign(m3) * n * m3 * m3, m2 * m2 * m2)

\* scipy.stats.kurtosis (Fisher, biased, nan_policy='propagate'): m4 / m2^2 - 3.
ss_kurtosis(s, legacy) ==
    LET n  == Len(s)
        m2 == PowSum(s, 2)
        m4 == PowSum(s, 4)
    IN  IF HasNaN(s) \/ n = 0 THEN NaN
        ELSE IF m2 = 0 THEN (IF legacy THEN Num(0 - 3) ELSE NaN)
        ELSE Rat(n * m4 - 3 * m2 * m2, m2 * m2)

\* Faulty variant of statistical_analysis: an absent column yields placeholder
\* moments instead of an exception.
statistical_analysis_placeholder(d, c, legacy) ==
    IF c \notin DOMAIN d \/ c \notin NumericColumns
    THEN [exc |-> "none", value |-> <<NaN, NaN, NaN, NaN>>]
    ELSE [exc |-> "none",
          value |-> <<series_mean(d[c]), series_std(d[c]),
                      ss_skew(d[c], legacy), ss_kurtosis(d[c], legacy)>>]

\* statistical_analysis(df, col): the moments tuple, or the exception raised
\* by df[col] (absent column) or by .mean() (non-numeric column).
statistical_analysis(d, c, legacy) ==
    IF c \notin DOMAIN d
    THEN [exc |-> "KeyError", value |-> <<>>]
    ELSE IF c \notin NumericColumns
    THEN [exc |-> "TypeError", value |-> <<>>]
    ELSE [exc |-> "none",
          value |-> <<series_mean(d[c]), series_std(d[c]),
                      ss_skew(d[c], legacy), ss_kurtosis(d[c], legacy)>>]

-----------------------------------------------------------------------------
(* The interpretation *)

skew_type(m) ==
    IF FGt(FAbs(m[3]), Num(2))
    THEN (IF FGt(m[3], Num(0)) THEN "right-skewed" ELSE "left-skewed")
    ELSE "not skewed"

kurtosis_type(m) ==
    IF FLt(m[4], Num(0)) THEN "platykurtic"
    ELSE IF FEq(m[4], Num(0)) THEN "mesokurtic"
    ELSE "leptokurtic"

\* writing(moments, col): what it prints, and the two labels of its last line.
writing_prints == <<"print:attribute", "print:moments", "print:shape">>

writing(m) == <<skew_type(m), kurtosis_type(m)>>

-----------------------------------------------------------------------------
(* pyplot and the plot generators *)

Generators ==
    {"plot_relational_plot", "plot_statistical_plot", "plot_categorical_plot"}

Path(g) ==
    IF g = "plot_relational_plot" THEN "relational_plot.png"
    ELSE IF g = "plot_statistical_plot" THEN "statistical_plot.png"
    ELSE "categorical_plot.png"

Paths == { Path(g) : g \in Generators }

\* The columns a generator names in its drawing call.
Requires(g) ==
    IF g = "plot_relational_plot"
    THEN {"math score", "reading score", "gender"}
    ELSE IF g = "plot_categorical_plot"
    THEN {"parental level of education", "writing score", "gender"}
    ELSE {}

\* A generator's first statement.
First(g) == IF g = "plot_statistical_plot" THEN "pairplot" ELSE "subplots"

\* Figure objects are named after the generator that creates them; "implicit"
\* is the blank figure pyplot makes when a call needs a current figure and
\* none is open.
Figures == Generators \cup {"implicit"}

\* plt.figure / plt.subplots: a new figure joins the registry and is current.
new_figure(reg, f) == Append(reg, f)

\* The registry after plt.gcf(), which opens a figure when none is open.
gcf_registry(reg) == IF reg = <<>> THEN <<"implicit">> ELSE reg

\* Faulty variant of gcf: the oldest open figure counts as current.
gcf_first(reg) == gcf_registry(reg)[1]

\* plt.gcf(): the current figure is the registry's last.
gcf(reg) == gcf_registry(reg)[Len(gcf_registry(reg))]

\* plt.close(): closes the current figure, if any is open.
plt_close(reg) == IF reg = <<>> THEN reg ELSE SubSeq(reg, 1, Len(reg) - 1)

\* savefig: the file receives a rendering of the figure as it is now.
Snapshot(f) == [figure |-> f, canvas |-> canvas[f]]

\* main's call following generator g.
AfterCall(g) ==
    IF g = "plot_relational_plot" THEN "plot_statistical_plot"
    ELSE IF g = "plot_statistical_plot" THEN "plot_categorical_plot"
    ELSE "statistical_analysis"

\* g may take a step: main has called it, or the harness lets it run (one
\* generator at a time unless the harness runs them in parallel).
Scheduled(g) ==
    \/ pc = g
    \/ /\ pc = "harness"
       /\ \/ mode = "parallel"
          \/ \A h \in Generators \ {g} : gpc[h] \in {First(h), "returned"}

At(g, label) == Scheduled(g) /\ gpc[g] = label

\* The drawing call of g raises: a column it names is absent, or the
\* library rejects the rendering.
Fails(g) == fault = g \/ ~(Requires(g) \subseteq DOMAIN df)

\* g moves on to its statement label.
Goto(g, label) ==
    /\ gpc' = [gpc EXCEPT ![g] = label]
    /\ UNCHANGED <<pc, exc>>

\* Faulty variant of Raise: the caller swallows the exception and goes on.
Raise_swallowed(g, e) ==
    /\ gpc' = [gpc EXCEPT ![g] = "raised"]
    /\ pc' = IF pc = g THEN AfterCall(g) ELSE pc
    /\ UNCHANGED exc

\* g raises e out of its drawing call; main does not catch it.
Raise(g, e) ==
    /\ gpc' = [gpc EXCEPT ![g] = "raised"]
    /\ exc' = e
    /\ pc' = IF pc = g THEN "failed" ELSE pc

\* g returns to its caller.
Return(g) ==
    /\ gpc' = [gpc EXCEPT ![g] = "returned"]
    /\ pc' = IF pc = g THEN AfterCall(g) ELSE pc
    /\ UNCHANGED exc

Draw(f, what) == canvas' = [canvas EXCEPT ![f] = @ \cup {what}]

Save(path, f) ==
    /\ written' = [written EXCEPT ![path] = Append(@, Snapshot(f))]
    /\ log' = Append(log, "savefig:" \o path)

data == <<csv, df, col, moments, report, fault, mode>>

(* plot_relational_plot *)

RelSubplots ==
    /\ At("plot_relational_plot", "subplots")
    /\ figs' = new_figure(figs, "plot_relational_plot")
    /\ Goto("plot_relational_plot", "scatterplot")
    /\ UNCHANGED <<data, canvas, written, log>>

RelScatterplot ==
    /\ At("plot_relational_plot", "scatterplot")
    /\ IF Fails("plot_relational_plot")
       THEN Raise("plot_relational_plot", "ValueError") /\ UNCHANGED canvas
       ELSE /\ Draw("plot_relational_plot", "scatterplot")
            /\ Goto("plot_relational_plot", "set_title")
    /\ UNCHANGED <<data, figs, written, log>>

RelSetTitle ==
    /\ At("plot_relational_plot", "set_title")
    /\ Draw("plot_relational_plot", "title")
    /\ Goto("plot_relational_plot", "savefig")
    /\ UNCHANGED <<data, figs, written, log>>

\* plt.savefig saves the current figure
RelSavefig ==
    /\ At("plot_relational_plot", "savefig")
    /\ figs' = gcf_registry(figs)
    /\ Save("relational_plot.png", gcf(figs))
    /\ Return("plot_relational_plot")
    /\ UNCHANGED <<data, canvas>>

(* plot_categorical_plot *)

CatSubplots ==
    /\ At("plot_categorical_plot", "subplots")
    /\ figs' = new_figure(figs, "plot_categorical_plot")
    /\ Goto("plot_categorical_plot", "boxplot")
    /\ UNCHANGED <<data, canvas, written, log>>

CatBoxplot ==
    /\ At("plot_categorical_plot", "boxplot")
    /\ IF Fails("plot_categorical_plot")
       THEN Raise("plot_categorical_plot", "ValueError") /\ UNCHANGED canvas
       ELSE /\ Draw("plot_categorical_plot", "boxplot")
            /\ Goto("plot_categorical_plot", "set_title")
    /\ UNCHANGED <<data, figs, written, log>>

CatSetTitle ==
    /\ At("plot_categorical_plot", "set_title")
    /\ Draw("plot_categorical_plot", "title")
    /\ Goto("plot_categorical_plot", "xticks")
    /\ UNCHANGED <<data, figs, written, log>>

\* plt.xticks rotates the tick labels of the current figure's axes
CatXticks ==
    /\ At("plot_categorical_plot", "xticks")
    /\ figs' = gcf_registry(figs)
    /\ Draw(gcf(figs), "xticks45")
    /\ Goto("plot_categorical_plot", "tight_layout")
    /\ UNCHANGED <<data, written, log>>

\* plt.tight_layout adjusts the current figure
CatTightLayout ==
    /\ At("plot_categorical_plot", "tight_layout")
    /\ figs' = gcf_registry(figs)
    /\ Draw(gcf(figs), "tight_layout")
    /\ Goto("plot_categorical_plot", "savefig")
    /\ UNCHANGED <<data, written, log>>

CatSavefig ==
    /\ At("plot_categorical_plot", "savefig")
    /\ figs' = gcf_registry(figs)
    /\ Save("categorical_plot.png", gcf(figs))
    /\ Return("plot_categorical_plot")
    /\ UNCHANGED <<data, canvas>>

(* plot_statistical_plot *)

\* sns.pairplot makes its grid's figure (the new current figure) and draws
\* the panels; when the library rejects the rendering the figure may or may
\* not have been made yet.
StatPairplot ==
    /\ At("plot_statistical_plot", "pairplot")
    /\ IF Fails("plot_statistical_plot")
       THEN /\ \E made \in BOOLEAN :
                 figs' = IF made THEN new_figure(figs, "plot_statistical_plot")
                         ELSE figs
            /\ Raise("plot_statistical_plot", "ValueError")
            /\ UNCHANGED canvas
       ELSE /\ figs' = new_figure(figs, "plot_statistical_plot")
            /\ Draw("plot_statistical_plot", "pairplot")
            /\ Goto("plot_statistical_plot", "set_size_inches")
    /\ UNCHANGED <<data, written, log>>

StatSetSize ==
    /\ At("plot_statistical_plot", "set_size_inches")
    /\ Draw("plot_statistical_plot", "size10x10")
    /\ Goto("plot_statistical_plot", "suptitle")
    /\ UNCHANGED <<data, figs, written, log>>

StatSuptitle ==
    /\ At("plot_statistical_plot", "suptitle")
    /\ Draw("plot_statistical_plot", "suptitle")
    /\ Goto("plot_statistical_plot", "savefig")
    /\ UNCHANGED <<data, figs, written, log>>

\* g.figure.savefig saves the grid's own figure
StatSavefig ==
    /\ At("plot_statistical_plot", "savefig")
    /\ Save("statistical_plot.png", "plot_statistical_plot")
    /\ Goto("plot_statistical_plot", "close")
    /\ UNCHANGED <<data, figs, canvas>>

\* plt.close() closes the current figure
StatClose ==
    /\ At("plot_statistical_plot", "close")
    /\ figs' = plt_close(figs)
    /\ Return("plot_statistical_plot")
    /\ UNCHANGED <<data, canvas, written, log>>

PlotStep ==
    \/ RelSubplots \/ RelScatterplot \/ RelSetTitle \/ RelSavefig
    \/ CatSubplots \/ CatBoxplot \/ CatSetTitle \/ CatXticks
    \/ CatTightLayout \/ CatSavefig
    \/ StatPairplot \/ StatSetSize \/ StatSuptitle \/ StatSavefig \/ StatClose

-----------------------------------------------------------------------------
(* main *)

\* Faulty variant of preprocessing_prints: the tail is printed before the head.
preprocessing_prints_swapped ==
    <<"print:describe", "print:tail", "print:head", "print:corr">>

\* What preprocessing prints, in order.
preprocessing_prints == <<"print:describe", "print:head", "print:tail", "print:corr">>

\* Faulty variant of preprocessing: the numeric columns are returned.
preprocessing_numeric_only(d) == [c \in DOMAIN d \cap NumericColumns |-> d[c]]

\* preprocessing(df) returns the frame it was given.
preprocessing(d) == d

plots == <<gpc, figs, canvas, written>>

\* df = pd.read_csv('data.csv')
Load ==
    /\ pc = "read_csv"
    /\ LET r == read_csv(csv)
       IN  IF r.exc = "none"
           THEN /\ df' = r.df
                /\ log' = Append(log, "read_csv")
                /\ pc' = "preprocessing"
                /\ UNCHANGED exc
           ELSE /\ exc' = r.exc
                /\ pc' = "failed"
                /\ UNCHANGED <<df, log>>
    /\ UNCHANGED <<csv, col, moments, report, fault, mode, plots>>

\* df = preprocessing(df); col = 'math score'
Preprocess ==
    /\ pc = "preprocessing"
    /\ log' = log \o preprocessing_prints
    /\ df' = preprocessing(df)
    /\ col' = "math score"
    /\ pc' = "plot_relational_plot"
    /\ UNCHANGED <<csv, exc, moments, report, fault, mode, plots>>

\* moments = statistical_analysis(df, col)
Analyse ==
    /\ pc = "statistical_analysis"
    /\ \E legacy \in BOOLEAN :
         LET r == statistical_analysis(df, col, legacy)
         IN  IF r.exc = "none"
             THEN /\ moments' = r.value
                  /\ log' = Append(log, "statistical_analysis")
                  /\ pc' = "writing"
                  /\ UNCHANGED exc
             ELSE /\ exc' = r.exc
                  /\ pc' = "failed"
                  /\ UNCHANGED <<moments, log>>
    /\ UNCHANGED <<csv, df, col, report, fault, mode, plots>>

\* writing(moments, col), then main returns
Write ==
    /\ pc = "writing"
    /\ report' = writing(moments)
    /\ log' = log \o writing_prints
    /\ pc' = "done"
    /\ UNCHANGED <<csv, df, col, exc, moments, fault, mode, plots>>

\* The interpreter's exit status once the run is over: 1 after an uncaught
\* exception, 0 after main returned.
ExitStatus == IF exc = "none" THEN 0 ELSE 1

InitPlots ==
    /\ gpc = [g \in Generators |-> First(g)]
    /\ figs = <<>>
    /\ canvas = [f \in Figures |-> {}]
    /\ written = [p \in Paths |-> <<>>]

\* python statistics_and_trends.py, for every data.csv explored
Init ==
    /\ csv \in CsvFiles
    /\ df = NoTable
    /\ col = ""
    /\ pc = "read_csv"
    /\ exc = "none"
    /\ moments = <<>>
    /\ report = <<>>
    /\ log = <<>>
    /\ fault \in Generators \cup {"none"}
    /\ mode = "sequential"
    /\ InitPlots

Next == Load \/ Preprocess \/ PlotStep \/ Analyse \/ Write

Spec == Init /\ [][Next]_vars

\* A harness that calls the three generators on a loaded frame, one after
\* another in any order (sequential) or with their statements interleaved
\* (parallel).
InitHarness ==
    /\ mode \in {"sequential", "parallel"}
    /\ \E m \in {MathColumn(1, 1, 0), MathColumn(1, 1, 1)} :
          /\ csv = [status |-> "ok", table |-> Table(AllColumns, m)]
          /\ df = Table(AllColumns, m)
    /\ col = "math score"
    /\ pc = "harness"
    /\ exc = "none"
    /\ moments = <<>>
    /\ report = <<>>
    /\ log = <<>>
    /\ fault = "none"
    /\ InitPlots

SpecHarness == InitHarness /\ [][PlotStep]_vars

\* The moment analysis and its report, called for any column name on any
\* loaded frame (lines 169-172 of main with col left open).
InitAnalysis ==
    /\ df \in Tables
    /\ csv = [status |-> "ok", table |-> df]
    /\ col \in AllColumns \cup {"id"}
    /\ pc = "statistical_analysis"
    /\ exc = "none"
    /\ moments = <<>>
    /\ report = <<>>
    /\ log = <<>>
    /\ fault = "none"
    /\ mode = "sequential"
    /\ InitPlots

NextAnalysis == Analyse \/ Write

SpecAnalysis == InitAnalysis /\ [][NextAnalysis]_vars

\* writing called directly on any moments tuple whose skewness and excess
\* kurtosis are NaN or a multiple of 1/2 between -3 and 3.
SampleFloats == {NaN} \cup { Rat(n, 2) : n \in (0 - 6)..6 }

InitWriting ==
    /\ \E s \in SampleFloats, k \in SampleFloats :
          moments = <<Num(0), Num(1), s, k>>
    /\ df = Table(AllColumns, MathColumn(1, 1, 0))
    /\ csv = [status |-> "ok", table |-> df]
    /\ col = "math score"
    /\ pc = "writing"
    /\ exc = "none"
    /\ report = <<>>
    /\ log = <<>>
    /\ fault = "none"
    /\ mode = "sequential"
    /\ InitPlots

SpecWriting == InitWriting /\ [][Write]_vars

-----------------------------------------------------------------------------
(* Properties *)

Open(f) == \E i \in 1..Len(figs) : figs[i] = f

Logged(e) == \E i \in 1..Len(log) : log[i] = e

\* Position of event e in the log, 0 when absent.
Pos(e) == IF Logged(e) THEN CHOOSE i \in 1..Len(log) : log[i] = e ELSE 0

Saves == { "savefig:" \o p : p \in Paths }

\* C1: whenever writing has reported on a skewness s, the skew label is
\* "right-skewed" exactly when s > 2, "left-skewed" exactly when s < -2 and
\* "not skewed" exactly when -2 <= s <= 2.
C1_SkewLabelExact ==
    report # <<>> =>
        LET s == moments[3]
        IN  /\ report[1] = "right-skewed" <=> FGt(s, Num(2))
            /\ report[1] = "left-skewed" <=> FLt(s, Num(0 - 2))
            /\ report[1] = "not skewed" <=>
                  /\ FGt(s, Num(0 - 2)) \/ FEq(s, Num(0 - 2))
                  /\ FLt(s, Num(2)) \/ FEq(s, Num(2))

\* C2: whenever writing has reported on an excess kurtosis k, the kurtosis
\* label is "platykurtic" exactly when k < 0, "mesokurtic" exactly when
\* k = 0 and "leptokurtic" exactly when k > 0.
C2_KurtosisLabelExact ==
    report # <<>> =>
        LET k == moments[4]
        IN  /\ report[2] \in {"platykurtic", "mesokurtic", "leptokurtic"}
            /\ report[2] = "platykurtic" <=> FLt(k, Num(0))
            /\ report[2] = "mesokurtic" <=> FEq(k, Num(0))
            /\ report[2] = "leptokurtic" <=> FGt(k, Num(0))

\* On every skewness and excess kurtosis that is a number, the labels are
\* the ones C1 and C2 describe (2 and -2 are "not skewed", 0 is "mesokurtic").
LabelsExactOnNumbers ==
    (report # <<>> /\ ~moments[3].nan /\ ~moments[4].nan) =>
        C1_SkewLabelExact /\ C2_KurtosisLabelExact

\* C3: the steps of main happen once each and in order: the load, the four
\* blocks printed by preprocessing, the three plot files, the moments, the
\* report; no plot file is written before preprocessing's output, no moment
\* is computed before the three plot files, and a completed run has done
\* all of them and takes no further step.
C3_PipelineOrder ==
    /\ \A i \in 1..Len(log) :
          /\ log[i] \in Saves =>
                /\ i > 5
                /\ SubSeq(log, 1, 5) = <<"read_csv", "print:describe",
                                         "print:head", "print:tail", "print:corr">>
          /\ log[i] = "statistical_analysis" =>
                \A e \in Saves : Logged(e) /\ Pos(e) < i
          /\ log[i] \in {"print:attribute", "print:moments", "print:shape"} =>
                Logged("statistical_analysis") /\ Pos("statistical_analysis") < i
          /\ \A j \in 1..Len(log) : log[j] = log[i] => j = i
    /\ pc = "done" =>
          /\ Len(log) = 12
          /\ SubSeq(log, 1, 5) = <<"read_csv", "print:describe",
                                   "print:head", "print:tail", "print:corr">>
          /\ { log[i] : i \in 6..8 } = Saves
          /\ SubSeq(log, 9, 12) = <<"statistical_analysis", "print:attribute",
                                    "print:moments", "print:shape">>
          /\ ~ENABLED Next

C3_Witness == pc = "done" /\ Len(log) = 12 /\ exc = "none"

\* Each plot file holds only renderings of its own generator's figure, the
\* tick and layout steps have acted only on the categorical figure, and
\* no figure of the relational or categorical generator has been closed;
\* once all three have returned, each file has been written once.
OwnFigures ==
    /\ \A g \in Generators : \A i \in 1..Len(written[Path(g)]) :
          written[Path(g)][i].figure = g
    /\ \A f \in Figures :
          canvas[f] \cap {"xticks45", "tight_layout"} # {}
              => f = "plot_categorical_plot"
    /\ \A g \in {"plot_relational_plot", "plot_categorical_plot"} :
          gpc[g] # First(g) => Open(g)
    /\ gpc["plot_statistical_plot"] = "returned" => ~Open("plot_statistical_plot")
    /\ (\A g \in Generators : gpc[g] = "returned") =>
          \A g \in Generators : Len(written[Path(g)]) = 1

\* C4 as claimed: in any order and under any interleaving of their steps,
\* the generators act only on their own figures and files.
C4_NoSharedState == pc = "harness" => OwnFigures

\* C4 amended: when the generators run one after another, in any order,
\* they act only on their own figures and files.
C4_SequentialOwnFigures == (pc = "harness" /\ mode = "sequential") => OwnFigures

\* The generators have run one after another in an order other than main's.
C4_Witness ==
    /\ pc = "harness"
    /\ mode = "sequential"
    /\ \A g \in Generators : gpc[g] = "returned"
    /\ log = <<"savefig:categorical_plot.png", "savefig:statistical_plot.png",
               "savefig:relational_plot.png">>

\* C5 as claimed: when a run in which one plot generator failed is over,
\* the other generators have written their files and the moments and the
\* report have been produced.
C5_ContinuesAfterPlotFailure ==
    \A g \in Generators :
        (gpc[g] = "raised" /\ pc \in {"done", "failed"}) =>
            /\ \A h \in Generators \ {g} : Len(written[Path(h)]) = 1
            /\ moments # <<>>
            /\ report # <<>>

\* C5 amended: a failure in a plot generator ends the run: the exception
\* leaves main, the failing generator and those main calls after it write
\* no file, no moments are computed, no report is printed and the exit
\* status is 1.
C5_PlotFailureAborts ==
    \A g \in Generators :
        gpc[g] = "raised" =>
            /\ pc = "failed"
            /\ exc # "none"
            /\ ExitStatus = 1
            /\ written[Path(g)] = <<>>
            /\ g = "plot_relational_plot" =>
                  /\ gpc["plot_statistical_plot"] = First("plot_statistical_plot")
                  /\ written["statistical_plot.png"] = <<>>
            /\ g \in {"plot_relational_plot", "plot_statistical_plot"} =>
                  /\ gpc["plot_categorical_plot"] = First("plot_categorical_plot")
                  /\ written["categorical_plot.png"] = <<>>
            /\ moments = <<>>
            /\ report = <<>>
            /\ ~Logged("statistical_analysis")
            /\ ~Logged("print:shape")
            /\ ~ENABLED Next

\* The statistical generator failed after the relational one wrote its file.
C5_Witness ==
    /\ gpc["plot_statistical_plot"] = "raised"
    /\ Len(written["relational_plot.png"]) = 1
    /\ pc = "failed"

\* C6: when data.csv cannot be loaded the run ends at once in failure:
\* nothing is printed, no plot file is written, no figure is made, no
\* moments are computed, no report is printed, and the exit status is 1.
C6_LoadFailureAborts ==
    (csv.status # "ok" /\ pc # "read_csv") =>
        /\ pc = "failed"
        /\ exc # "none"
        /\ ExitStatus = 1
        /\ log = <<>>
        /\ \A p \in Paths : written[p] = <<>>
        /\ figs = <<>>
        /\ moments = <<>>
        /\ report = <<>>
        /\ ~ENABLED Next

C6_Witness == csv.status = "missing" /\ pc = "failed" /\ exc = "FileNotFoundError"

\* C7 as claimed: statistical_analysis on a column that the frame does not
\* have raises ColumnNotFoundError and yields no moments, and writing is not
\* invoked.
C7_RaisesColumnNotFoundError ==
    (col \notin DOMAIN df /\ pc # "statistical_analysis") =>
        /\ pc = "failed"
        /\ exc = "ColumnNotFoundError"
        /\ moments = <<>>
        /\ report = <<>>
        /\ log = <<>>

\* C7 amended: statistical_analysis on a column that the frame does not have
\* raises KeyError (the error of the lookup df[col]; the program defines no
\* ColumnNotFoundError), yields no moments, and writing is not invoked.
C7_AbsentColumnRaises ==
    (col \notin DOMAIN df /\ pc # "statistical_analysis") =>
        /\ pc = "failed"
        /\ exc = "KeyError"
        /\ moments = <<>>
        /\ report = <<>>
        /\ log = <<>>

C7_Witness ==
    /\ col = "math score"
    /\ col \notin DOMAIN df
    /\ pc = "failed"
    /\ exc = "KeyError"

\* C8: from the load on, through preprocessing, the three generators, the
\* analysis and the report, main's frame is the table that was loaded.
C8_DatasetReadOnly ==
    (csv.status = "ok" /\ pc # "read_csv") => df = csv.table

\* The analysis has run on a loaded frame with rows.
C8_Witness ==
    /\ pc = "writing"
    /\ moments # <<>>
    /\ df = csv.table
    /\ "math score" \in DOMAIN df
    /\ Len(df["math score"]) > 1

\* C9: a generator that has returned has written its file once and its
\* figure is no longer open, and no figure is open when main is done.
C9_NoFigureRetained ==
    /\ \A g \in Generators :
          gpc[g] = "returned" =>
              /\ Len(written[Path(g)]) = 1
              /\ ~Open(g)
    /\ pc = "done" => figs = <<>>

\* C10: the report says "leptokurtic" only if the excess kurtosis is
\* greater than 0, and "not skewed" only if the absolute skewness is at
\* most 2.
C10_LabelsSound ==
    report # <<>> =>
        /\ report[2] = "leptokurtic" => FGt(moments[4], Num(0))
        /\ report[1] = "not skewed" =>
              \/ FLt(FAbs(moments[3]), Num(2))
              \/ FEq(FAbs(moments[3]), Num(2))

=============================================================================
